---------------------------- MODULE Spec2Model ----------------------------
(***************************************************************************)
(* The customer-record service of the repository, in its two entry points: *)
(*   "backend": src/backend/app/api/customers.py (router /api/customers),  *)
(*              which keeps first_name, last_name, email and timestamps;   *)
(*   "run":     src/app/run.py over src/app/firebase_utils.py              *)
(*              (/api/customer), which keeps name, email, phone, address.  *)
(* A deployment runs one of them (app); both talk to the Firestore         *)
(* collection 'customers'.  A worker is one server process: its handlers   *)
(* are `async def` bodies with blocking store calls, so a worker runs one  *)
(* request at a time, while the store calls of different workers           *)
(* interleave.  A handler is cut at its reads of shared state: a store     *)
(* call, a reading of the clock.                                           *)
(* Spec is the service answering requests; what a handler's connect gives  *)
(* is there the fault of its step.  SpecConnect is the connects alone      *)
(* (get_db, initialize_firebase, the startup hook) with the credential     *)
(* files and default credentials a process finds.                          *)
(***************************************************************************)
EXTENDS Integers, Sequences, FiniteSets, TLC

VARIABLES app, store, clock, issued, req, resp, deleted, nreq, proc, conn

vars == <<app, store, clock, issued, req, resp, deleted, nreq, proc, conn>>

\* the state of the processes' Firebase apps, and the rest
connvars == <<proc, conn>>
crudvars == <<app, store, clock, issued, req, resp, deleted, nreq>>

-----------------------------------------------------------------------------
(* Bounds of the model *)

\* the ids uuid4 / Firestore's auto-id can hand out are 1..NumIds
NumIds == 2
\* the clock runs from 1 to MaxClock
MaxClock == 2
\* the requests the clients send in one run
MaxRequests == 3

Ids == 1..NumIds
Workers == {"w1", "w2"}
Limits == {1}

-----------------------------------------------------------------------------
(* Values *)

\* Python's None
None == "<None>"
\* a timestamp that is None or missing (falsy in `created_at or now()`)
NoTime == 0
\* the default of the limit query parameter
DefaultLimit == 100

EmptyDict == [k \in {} |-> None]

\* dict.get(key, default)
dict_get(d, k, default) == IF k \in DOMAIN d THEN d[k] ELSE default

\* str(v)
str(v) == IF v = None THEN "None" ELSE v

\* (mutant) the payload with its id left in
keeping_id(d) == d

\* {k: v for k, v in d.items() if k != "id"}
excluding_id(d) == [k \in DOMAIN d \ {"id"} |-> d[k]]

\* the JSON bodies a client sends; a key left out is absent from the body
BackendBodies ==
    { [first_name |-> "Jane", last_name |-> "Doe", email |-> "jane@x.com"],
      [first_name |-> "New", last_name |-> "Doe", id |-> "forged",
       created_at |-> "1999"],
      [first_name |-> "", last_name |-> "Smith", email |-> "a@x.com"],
      [last_name |-> "Smith"] }

RunBodies ==
    { [name |-> "Jane", email |-> "jane@x.com"],
      [name |-> "New", id |-> "forged", created_at |-> "1999"],
      [id |-> "forged", created_at |-> "1999"] }


-----------------------------------------------------------------------------
(* The Firestore collection 'customers': a function from the ids of the     *)
(* documents that exist to their payloads                                   *)

\* DocumentSnapshot.exists
exists(s, id) == id \in DOMAIN s

\* DocumentReference.set(data): creates the document or overwrites it
doc_set(s, id, data) ==
    [k \in DOMAIN s \cup {id} |-> IF k = id THEN data ELSE s[k]]

\* (mutant) an update that writes only the fields the document lacks
doc_update_keeps(s, id, data) ==
    [s EXCEPT ![id] =
        [k \in DOMAIN s[id] \cup DOMAIN data |->
            IF k \in DOMAIN s[id] THEN s[id][k] ELSE data[k]]]

\* DocumentReference.update(data) on a document that exists: the fields of
\* data are written, the other stored fields stay (on a document that does
\* not exist the call raises NotFound; the callers below test that)
doc_update(s, id, data) ==
    [s EXCEPT ![id] =
        [k \in DOMAIN s[id] \cup DOMAIN data |->
            IF k \in DOMAIN data THEN data[k] ELSE s[id][k]]]

\* (mutant) a delete that leaves the document in place
doc_delete_keeps(s, id) == s

\* DocumentReference.delete(): no error when the document does not exist
doc_delete(s, id) == [k \in DOMAIN s \ {id} |-> s[k]]

\* the ids of a collection in the order stream() yields them (by document id)
RECURSIVE ordered_ids(_)
ordered_ids(S) ==
    IF S = {} THEN <<>>
    ELSE LET m == CHOOSE x \in S : \A y \in S : x <= y
         IN  <<m>> \o ordered_ids(S \ {m})

\* datetime.now(): clock is the latest reading, the next one is no earlier
\* (the clock does not run backwards)
datetime_now(latest) ==
    {t \in 1..MaxClock : latest <= t /\ t <= latest + 1}

\* (mutant) an id generator that may repeat an id
repeating_ids(used) == Ids

\* uuid.uuid4() and Firestore's auto-id: an id no earlier call has returned
fresh_ids(used) == Ids \ used

-----------------------------------------------------------------------------
(* Requests in flight and responses *)

\* what a handler holds between its steps: the id and body of the request,
\* doc, the payload its lookup read, and new, the record it is about to write
Idle == [pc |-> "idle", id |-> 0, doc |-> EmptyDict, body |-> EmptyDict,
         new |-> EmptyDict]

\* what can go wrong in a step that uses the store: get_db() raises (in
\* firebase_utils: initialize_firebase() gives no client), or the call on
\* the client raises; text is str(e) of the exception
NoFault == [kind |-> "none", text |-> ""]
NoConnection == [kind |-> "unavailable", text |-> "DefaultCredentialsError"]
CallFailed == [kind |-> "raised", text |-> "DeadlineExceeded"]
Faults == {NoFault, NoConnection, CallFailed}

\* DocumentReference.update() on a document that is gone
NoDocument == [kind |-> "raised", text |-> "NotFound"]

\* resp is the response given by the latest step, NoResponse when that step
\* answered no request.  raised records that the store call of the step failed
\* (get_db or the call raised; in firebase_utils: the except branch or no
\* client), unavailable that it failed for want of a connection; detail is
\* the detail of an HTTPException with status 500
NoResponse == [op |-> "none", id |-> 0, status |-> 0, body |-> EmptyDict,
               limit |-> 0, raised |-> FALSE, unavailable |-> FALSE,
               detail |-> <<>>]

Response(op, id, status, body) ==
    [op |-> op, id |-> id, status |-> status, body |-> body, limit |-> 0,
     raised |-> FALSE, unavailable |-> FALSE, detail |-> <<>>]

Raised(op, id, status, body) ==
    [Response(op, id, status, body) EXCEPT !.raised = TRUE]

\* the response r of a step whose store call met fault e
Failure(r, e) ==
    [r EXCEPT !.raised = (r.raised \/ e # NoFault),
              !.unavailable = (e.kind = "unavailable")]

\* except Exception as e:
\*     raise HTTPException(status_code=500, detail=f"{message}: {str(e)}")
HTTPException_500_str_e(op, id, message, e) ==
    [Failure(Raised(op, id, 500, EmptyDict), e) EXCEPT
        !.detail = <<message, e.text>>]

\* raise HTTPException(status_code=500, detail=message)
HTTPException_500(op, id, message, e) ==
    [Failure(Raised(op, id, 500, EmptyDict), e) EXCEPT !.detail = <<message>>]

\* worker w takes a request off the wire
accept(w) ==
    /\ req[w].pc = "idle"
    /\ nreq < MaxRequests
    /\ nreq' = nreq + 1

\* the answer of worker w, which is idle again
respond(w, r) ==
    /\ resp' = r
    /\ req' = [req EXCEPT ![w] = Idle]

-----------------------------------------------------------------------------
(* backend/app/api/customers.py *)

\* Customer.__init__: a falsy timestamp becomes datetime.now()
Customer(id, first_name, last_name, email, created_at, updated_at, now) ==
    [id |-> id, first_name |-> first_name, last_name |-> last_name,
     email |-> email,
     created_at |-> IF created_at = NoTime THEN now ELSE created_at,
     updated_at |-> IF updated_at = NoTime THEN now ELSE updated_at]

\* (mutant) from_dict without the email
from_dict_without_email(id, data, now) ==
    Customer(id,
             str(dict_get(data, "first_name", "")),
             str(dict_get(data, "last_name", "")),
             None,
             dict_get(data, "created_at", NoTime),
             dict_get(data, "updated_at", NoTime),
             now)

from_dict(id, data, now) ==
    Customer(id,
             str(dict_get(data, "first_name", "")),
             str(dict_get(data, "last_name", "")),
             dict_get(data, "email", None),
             dict_get(data, "created_at", NoTime),
             dict_get(data, "updated_at", NoTime),
             now)

to_dict(c) ==
    [id |-> c.id, first_name |-> c.first_name, last_name |-> c.last_name,
     email |-> c.email, created_at |-> c.created_at,
     updated_at |-> c.updated_at]

\* the pydantic model CustomerCreate: unknown keys are dropped, email
\* defaults to None; first_name and last_name are required strings
CustomerCreate(body) ==
    [first_name |-> dict_get(body, "first_name", None),
     last_name |-> dict_get(body, "last_name", None),
     email |-> dict_get(body, "email", None)]

CustomerCreate_valid(body) ==
    /\ dict_get(body, "first_name", None) # None
    /\ dict_get(body, "last_name", None) # None

\* GET /api/customers/ : no limit parameter is declared, a limit in the
\* query string is ignored
get_customers(w, limit) ==
    /\ app = "backend"
    /\ accept(w)
    /\ \E fault \in Faults : LET ok == fault = NoFault IN
         respond(w,
            IF ok
            THEN [Response("list", 0, 200,
                     [i \in 1..Cardinality(DOMAIN store) |->
                        LET id == ordered_ids(DOMAIN store)[i]
                        IN  to_dict(from_dict(id, store[id], clock))])
                  EXCEPT !.limit = limit]
            ELSE [HTTPException_500_str_e("list", 0,
                     "Error retrieving customers", fault)
                  EXCEPT !.limit = limit])
    /\ UNCHANGED <<connvars, app, store, clock, issued, deleted>>

\* GET /api/customers/{customer_id}
get_customer(w, id) ==
    /\ app = "backend"
    /\ accept(w)
    /\ \E fault \in Faults : LET ok == fault = NoFault IN
         respond(w,
            IF ~ok THEN HTTPException_500_str_e("get", id,
                           "Error retrieving customer", fault)
            ELSE IF ~exists(store, id) THEN Response("get", id, 404, EmptyDict)
            ELSE Response("get", id, 200,
                          to_dict(from_dict(id, store[id], clock))))
    /\ UNCHANGED <<connvars, app, store, clock, issued, deleted>>

\* the record create_customer builds: created_at = updated_at = now
new_customer(id, customer, now) ==
    Customer(id, customer.first_name, customer.last_name, customer.email,
             now, now, now)

\* POST /api/customers/
create_customer(w, body) ==
    /\ app = "backend"
    /\ accept(w)
    /\ IF ~CustomerCreate_valid(body)
       THEN /\ respond(w, Response("create", 0, 422, EmptyDict))
            /\ UNCHANGED <<store, issued, clock>>
       ELSE \E fault \in Faults : LET ok == fault = NoFault IN \E id \in fresh_ids(issued) :
            \E now \in datetime_now(clock) :
              LET c == new_customer(id, CustomerCreate(body), now)
              IN  /\ issued' = issued \cup {id}
                  /\ clock' = now
                  /\ IF ok
                     THEN /\ store' = doc_set(store, id, excluding_id(to_dict(c)))
                          /\ respond(w, Response("create", id, 201, to_dict(c)))
                     ELSE /\ store' = store
                          /\ respond(w, HTTPException_500_str_e("create", id,
                                           "Error creating customer", fault))
    /\ UNCHANGED <<connvars, app, deleted>>

\* (mutant) the lookup without `if not doc.exists`
update_customer_get_unchecked(w, id, body) ==
    /\ app = "backend"
    /\ accept(w)
    /\ IF ~CustomerCreate_valid(body)
       THEN respond(w, Response("update", id, 422, EmptyDict))
       ELSE /\ req' = [req EXCEPT ![w] =
                         [Idle EXCEPT !.pc = "update_got", !.id = id,
                                      !.doc = IF exists(store, id)
                                              THEN store[id] ELSE EmptyDict,
                                      !.body = CustomerCreate(body)]]
            /\ resp' = NoResponse
    /\ UNCHANGED <<connvars, app, store, clock, issued, deleted>>

\* PUT /api/customers/{customer_id}: the lookup
update_customer_get(w, id, body) ==
    /\ app = "backend"
    /\ accept(w)
    /\ IF ~CustomerCreate_valid(body)
       THEN respond(w, Response("update", id, 422, EmptyDict))
       ELSE \E fault \in Faults : LET ok == fault = NoFault IN
              IF ~ok THEN respond(w, HTTPException_500_str_e("update", id,
                                        "Error updating customer", fault))
              ELSE IF ~exists(store, id)
              THEN respond(w, Response("update", id, 404, EmptyDict))
              ELSE /\ req' = [req EXCEPT ![w] =
                                [Idle EXCEPT !.pc = "update_got", !.id = id,
                                             !.doc = store[id],
                                             !.body = CustomerCreate(body)]]
                   /\ resp' = NoResponse
    /\ UNCHANGED <<connvars, app, store, clock, issued, deleted>>

\* (mutant) an update that stamps created_at as well
updated_customer_restamped(id, data, customer, now) ==
    [from_dict(id, data, now) EXCEPT
        !.first_name = customer.first_name,
        !.last_name = customer.last_name,
        !.email = customer.email,
        !.created_at = now,
        !.updated_at = now]

\* (mutant) an update that stamps created_at in place of updated_at
updated_customer_swapped(id, data, customer, now) ==
    [from_dict(id, data, now) EXCEPT
        !.first_name = customer.first_name,
        !.last_name = customer.last_name,
        !.email = customer.email,
        !.created_at = now]

\* the record update_customer writes: the stored one with the three fields
\* of the request and a new updated_at
updated_customer(id, data, customer, now) ==
    [from_dict(id, data, now) EXCEPT
        !.first_name = customer.first_name,
        !.last_name = customer.last_name,
        !.email = customer.email,
        !.updated_at = now]

\* ... the new record is built and datetime.now() read
update_customer_now(w) ==
    /\ app = "backend"
    /\ req[w].pc = "update_got"
    /\ \E now \in datetime_now(clock) :
         /\ clock' = now
         /\ req' = [req EXCEPT ![w].pc = "update_stamped",
                               ![w].new = updated_customer(req[w].id, req[w].doc,
                                                           req[w].body, now)]
    /\ resp' = NoResponse
    /\ UNCHANGED <<connvars, nreq, app, store, issued, deleted>>

\* (mutant) the write as doc_ref.set(...), which creates a missing document
update_customer_set(w) ==
    /\ app = "backend"
    /\ req[w].pc = "update_stamped"
    /\ \E fault \in Faults :
         IF fault = NoFault
         THEN /\ store' = doc_set(store, req[w].id,
                                  excluding_id(to_dict(req[w].new)))
              /\ respond(w, Response("update", req[w].id, 200, to_dict(req[w].new)))
         ELSE /\ store' = store
              /\ respond(w, HTTPException_500_str_e("update", req[w].id,
                               "Error updating customer", fault))
    /\ UNCHANGED <<connvars, nreq, app, clock, issued, deleted>>

\* ... doc_ref.update(...), which raises when the document is gone
update_customer_update(w) ==
    /\ app = "backend"
    /\ req[w].pc = "update_stamped"
    /\ \E fault \in Faults : LET ok == fault = NoFault IN
         IF ok /\ exists(store, req[w].id)
         THEN /\ store' = doc_update(store, req[w].id,
                                     excluding_id(to_dict(req[w].new)))
              /\ respond(w, Response("update", req[w].id, 200, to_dict(req[w].new)))
         ELSE /\ store' = store
              /\ respond(w, HTTPException_500_str_e("update", req[w].id,
                               "Error updating customer",
                               IF ok THEN NoDocument ELSE fault))
    /\ UNCHANGED <<connvars, nreq, app, clock, issued, deleted>>

\* (mutant) the lookup without `if not doc.exists`
delete_customer_get_unchecked(w, id) ==
    /\ app = "backend"
    /\ accept(w)
    /\ req' = [req EXCEPT ![w] = [Idle EXCEPT !.pc = "delete_got", !.id = id]]
    /\ resp' = NoResponse
    /\ UNCHANGED <<connvars, app, store, clock, issued, deleted>>

\* DELETE /api/customers/{customer_id}: the lookup
delete_customer_get(w, id) ==
    /\ app = "backend"
    /\ accept(w)
    /\ \E fault \in Faults : LET ok == fault = NoFault IN
         IF ~ok THEN respond(w, HTTPException_500_str_e("delete", id,
                                   "Error deleting customer", fault))
         ELSE IF ~exists(store, id)
         THEN respond(w, Response("delete", id, 404, EmptyDict))
         ELSE /\ req' = [req EXCEPT ![w] = [Idle EXCEPT !.pc = "delete_got",
                                                        !.id = id]]
              /\ resp' = NoResponse
    /\ UNCHANGED <<connvars, app, store, clock, issued, deleted>>

\* ... doc_ref.delete()
delete_customer_delete(w) ==
    /\ app = "backend"
    /\ req[w].pc = "delete_got"
    /\ \E fault \in Faults : LET ok == fault = NoFault IN
         IF ok
         THEN /\ store' = doc_delete(store, req[w].id)
              /\ deleted' = deleted \cup {req[w].id}
              /\ respond(w, Response("delete", req[w].id, 204, EmptyDict))
         ELSE /\ UNCHANGED <<store, deleted>>
              /\ respond(w, HTTPException_500_str_e("delete", req[w].id,
                               "Error deleting customer", fault))
    /\ UNCHANGED <<connvars, nreq, app, clock, issued>>

-----------------------------------------------------------------------------
(* app/firebase_utils.py: every failure (no client, an exception of the    *)
(* store call) is logged and turned into None, False or []                 *)

\* an Optional[dict]: the dict, or None
Some(d) == [some |-> TRUE, data |-> d]
Nothing == [some |-> FALSE, data |-> EmptyDict]

\* `not x` of an Optional[dict]: None and the empty dict are falsy
falsy(x) == ~x.some \/ DOMAIN x.data = {}

\* get_customer(customer_id); ok: the client is there and the call went through
firebase_get_customer(s, id, ok) ==
    IF ok /\ exists(s, id) THEN Some(s[id]) ELSE Nothing

\* whether update_customer(customer_id, customer_data) returns True:
\* DocumentReference.update raises on a missing document and on empty data
firebase_update_customer_ok(s, id, data, ok) ==
    ok /\ exists(s, id) /\ DOMAIN data # {}

\* list_customers(limit): the first `limit` documents, each with its id
firebase_list_customers(s, limit, ok) ==
    IF ~ok THEN <<>>
    ELSE LET ids == ordered_ids(DOMAIN s)
             n == IF limit < Len(ids) THEN limit ELSE Len(ids)
         IN  [i \in 1..n |->
                [k \in DOMAIN s[ids[i]] \cup {"id"} |->
                    IF k = "id" THEN ids[i] ELSE s[ids[i]][k]]]

-----------------------------------------------------------------------------
(* app/run.py *)

\* the pydantic models CustomerCreate and CustomerUpdate, as .dict() gives
\* them: unknown keys dropped, a key left out is None
CustomerBase_dict(body) ==
    [name |-> dict_get(body, "name", None),
     email |-> dict_get(body, "email", None),
     phone |-> dict_get(body, "phone", None),
     address |-> dict_get(body, "address", None)]

\* CustomerCreate of run.py requires name and email
RunCustomerCreate_valid(body) ==
    /\ dict_get(body, "name", None) # None
    /\ dict_get(body, "email", None) # None

\* {k: v for k, v in customer_update.dict().items() if v is not None}
update_data(d) == [k \in {x \in DOMAIN d : d[x] # None} |-> d[k]]

\* result = dict(customer_data); result["id"] = customer_id
with_id(x, id) ==
    [k \in (IF x.some THEN DOMAIN x.data ELSE {}) \cup {"id"} |->
        IF k = "id" THEN id ELSE x.data[k]]

\* POST /api/customer: firebase_utils.create_customer
create_customer_endpoint_add(w, body) ==
    /\ app = "run"
    /\ accept(w)
    /\ IF ~RunCustomerCreate_valid(body)
       THEN /\ respond(w, Response("create", 0, 422, EmptyDict))
            /\ UNCHANGED <<store, issued>>
       ELSE \E fault \in Faults : LET ok == fault = NoFault IN
              IF ok
              THEN \E id \in fresh_ids(issued) :
                     /\ issued' = issued \cup {id}
                     /\ store' = doc_set(store, id, CustomerBase_dict(body))
                     /\ req' = [req EXCEPT ![w] = [Idle EXCEPT !.pc = "create_added",
                                                              !.id = id]]
                     /\ resp' = NoResponse
              ELSE /\ respond(w, HTTPException_500("create", 0,
                                    "Failed to create customer", fault))
                   /\ UNCHANGED <<store, issued>>
    /\ UNCHANGED <<connvars, app, clock, deleted>>

\* ... get_customer(customer_id) of the record just created
create_customer_endpoint_get(w) ==
    /\ app = "run"
    /\ req[w].pc = "create_added"
    /\ \E fault \in Faults : LET ok == fault = NoFault IN
         LET customer_data == firebase_get_customer(store, req[w].id, ok)
         IN  respond(w,
                IF falsy(customer_data)
                THEN [HTTPException_500("create", req[w].id,
                         "Customer created but couldn't retrieve it", fault)
                      EXCEPT !.raised = ~ok]
                ELSE Response("create", req[w].id, 200,
                              with_id(customer_data, req[w].id)))
    /\ UNCHANGED <<connvars, nreq, app, store, clock, issued, deleted>>

\* GET /api/customer/{customer_id}
get_customer_endpoint(w, id) ==
    /\ app = "run"
    /\ accept(w)
    /\ \E fault \in Faults : LET ok == fault = NoFault IN
         LET customer_data == firebase_get_customer(store, id, ok)
         IN  respond(w,
                IF falsy(customer_data)
                THEN Failure(Response("get", id, 404, EmptyDict), fault)
                ELSE Response("get", id, 200, with_id(customer_data, id)))
    /\ UNCHANGED <<connvars, app, store, clock, issued, deleted>>

\* GET /api/customers?limit=
list_customers_endpoint(w, limit) ==
    /\ app = "run"
    /\ accept(w)
    /\ \E fault \in Faults : LET ok == fault = NoFault IN
         respond(w, [Failure(Response("list", 0, 200,
                                firebase_list_customers(store, limit, ok)),
                             fault)
                     EXCEPT !.limit = limit])
    /\ UNCHANGED <<connvars, app, store, clock, issued, deleted>>

\* PUT /api/customer/{customer_id}: the existence check
update_customer_endpoint_get(w, id, body) ==
    /\ app = "run"
    /\ accept(w)
    /\ \E fault \in Faults : LET ok == fault = NoFault IN
         IF falsy(firebase_get_customer(store, id, ok))
         THEN respond(w, Failure(Response("update", id, 404, EmptyDict),
                                 fault))
         ELSE /\ req' = [req EXCEPT ![w] =
                           [Idle EXCEPT !.pc = "update_checked", !.id = id,
                                        !.doc = store[id],
                                        !.body = update_data(CustomerBase_dict(body))]]
              /\ resp' = NoResponse
    /\ UNCHANGED <<connvars, app, store, clock, issued, deleted>>

\* ... firebase_utils.update_customer(customer_id, update_data)
update_customer_endpoint_update(w) ==
    /\ app = "run"
    /\ req[w].pc = "update_checked"
    /\ \E fault \in Faults : LET ok == fault = NoFault IN
         IF firebase_update_customer_ok(store, req[w].id, req[w].body, ok)
         THEN /\ store' = doc_update(store, req[w].id, req[w].body)
              /\ req' = [req EXCEPT ![w].pc = "update_written"]
              /\ resp' = NoResponse
         ELSE /\ store' = store
              /\ respond(w, HTTPException_500("update", req[w].id,
                               "Failed to update customer", fault))
    /\ UNCHANGED <<connvars, nreq, app, clock, issued, deleted>>

\* ... get_customer(customer_id) again; the answer is 200 whatever it gives
update_customer_endpoint_reget(w) ==
    /\ app = "run"
    /\ req[w].pc = "update_written"
    /\ \E fault \in Faults : LET ok == fault = NoFault IN
         respond(w, Failure(Response("update", req[w].id, 200,
                               with_id(firebase_get_customer(store, req[w].id, ok),
                                       req[w].id)),
                            fault))
    /\ UNCHANGED <<connvars, nreq, app, store, clock, issued, deleted>>

\* DELETE /api/customer/{customer_id}: the existence check
delete_customer_endpoint_get(w, id) ==
    /\ app = "run"
    /\ accept(w)
    /\ \E fault \in Faults : LET ok == fault = NoFault IN
         IF falsy(firebase_get_customer(store, id, ok))
         THEN respond(w, Failure(Response("delete", id, 404, EmptyDict),
                                 fault))
         ELSE /\ req' = [req EXCEPT ![w] = [Idle EXCEPT !.pc = "delete_checked",
                                                        !.id = id,
                                                        !.doc = store[id]]]
              /\ resp' = NoResponse
    /\ UNCHANGED <<connvars, app, store, clock, issued, deleted>>

\* ... firebase_utils.delete_customer(customer_id)
delete_customer_endpoint_delete(w) ==
    /\ app = "run"
    /\ req[w].pc = "delete_checked"
    /\ \E fault \in Faults : LET ok == fault = NoFault IN
         IF ok
         THEN /\ store' = doc_delete(store, req[w].id)
              /\ deleted' = deleted \cup {req[w].id}
              /\ respond(w, Response("delete", req[w].id, 200, EmptyDict))
         ELSE /\ UNCHANGED <<store, deleted>>
              /\ respond(w, HTTPException_500("delete", req[w].id,
                               "Failed to delete customer", fault))
    /\ UNCHANGED <<connvars, nreq, app, clock, issued>>

-----------------------------------------------------------------------------
(* The connection to Firestore: backend/app/db.py get_db(), called by      *)
(* every handler of customers.py; app/firebase_utils.py                    *)
(* initialize_firebase(), called by every function of firebase_utils; the  *)
(* startup hook of backend/app/main.py.  proc[w].fbapp is the default      *)
(* Firebase app of process w (firebase_admin._apps): NoApp, or the         *)
(* credential source it was initialised with; proc[w].firebase_initialized *)
(* is the global of that name in main.py.                                  *)

NoApp == "none"

\* a credential file is missing, is there but no service-account key
\* (credentials.Certificate raises), or is a key
FileStates == {"missing", "invalid", "valid"}

\* what a process finds around it when it connects: the three files get_db
\* looks for and the ambient default credentials of the platform
BackendEnvs ==
    [firebase_cred_path : FileStates, cloud_run_cred_path : FileStates,
     adc_path : FileStates, default : {"missing", "valid"}]

\* ... and the one file initialize_firebase looks for
\* (FIREBASE_IMPORTS_AVAILABLE is taken to be True)
RunEnvs == [FIREBASE_CRED_PATH : FileStates]

\* try: cred = credentials.Certificate(path); app = initialize_app(cred)
\* except Exception: app = initialize_app()
\* as the sequence of the credential sources it initialises with
Certificate_or_default(env, path) ==
    IF env[path] = "valid" THEN <<path>> ELSE <<path, "default">>

\* the if / elif / else of get_db over os.path.exists
discover(env) ==
    IF env.firebase_cred_path # "missing"
    THEN Certificate_or_default(env, "firebase_cred_path")
    ELSE IF env.cloud_run_cred_path # "missing"
    THEN Certificate_or_default(env, "cloud_run_cred_path")
    ELSE IF env.adc_path # "missing"
    THEN Certificate_or_default(env, "adc_path")
    ELSE <<"default">>

\* whether google.auth.default() finds credentials: the file named by
\* GOOGLE_APPLICATION_CREDENTIALS when there is one (an unusable one is an
\* error), else those of the platform
ApplicationDefault(env) ==
    \/ env.adc_path = "valid"
    \/ env.adc_path = "missing" /\ env.default = "valid"

\* whether firestore.client() of an app initialised with source gives a
\* client: an app of default credentials needs them to be there
firestore_client(source, env) ==
    IF source = "default" THEN ApplicationDefault(env) ELSE TRUE

\* conn is the latest connect: the process, what it found around it, the
\* paths it looked for (os.path.exists), the sources it initialised with in
\* order, and db, whether it returned a client
NoConnect == [w |-> "none", env |-> EmptyDict, checked |-> {},
              tried |-> <<>>, db |-> FALSE]

\* the paths get_db looks for until one is there
checked_paths(env) ==
    IF env.firebase_cred_path # "missing" THEN {"firebase_cred_path"}
    ELSE IF env.cloud_run_cred_path # "missing"
    THEN {"firebase_cred_path", "cloud_run_cred_path"}
    ELSE {"firebase_cred_path", "cloud_run_cred_path", "adc_path"}

\* @app.on_event("startup") of main.py: initialize_app() with no
\* credentials unless an app is there; run.py has no such hook.  ran is
\* FALSE when the hook raised before initialize_app() returned, or when the
\* handlers are used without the startup event
startup_db_client(w) ==
    /\ app = "backend"
    /\ ~proc[w].started
    /\ \E ran \in BOOLEAN :
         proc' = [proc EXCEPT ![w] =
                    [started |-> TRUE,
                     fbapp |-> IF ran THEN "default" ELSE NoApp,
                     firebase_initialized |-> ran]]
    /\ conn' = NoConnect
    /\ UNCHANGED crudvars

\* (mutant) get_db() without the get_app() it begins with
get_db_without_get_app(w, env) ==
    /\ app = "backend"
    /\ proc[w].started
    /\ LET tried == discover(env)
           a == tried[Len(tried)]
       IN  /\ proc' = [proc EXCEPT ![w].fbapp = a]
           /\ conn' = [w |-> w, env |-> env,
                       checked |-> checked_paths(env),
                       tried |-> tried,
                       db |-> firestore_client(a, env)]
    /\ UNCHANGED crudvars

\* get_db() of db.py in process w
get_db(w, env) ==
    /\ app = "backend"
    /\ proc[w].started
    /\ LET found == proc[w].fbapp # NoApp
           tried == IF found THEN <<>> ELSE discover(env)
           a == IF found THEN proc[w].fbapp ELSE tried[Len(tried)]
       IN  /\ proc' = [proc EXCEPT ![w].fbapp = a]
           /\ conn' = [w |-> w, env |-> env,
                       checked |-> IF found THEN {} ELSE checked_paths(env),
                       tried |-> tried,
                       db |-> firestore_client(a, env)]
    /\ UNCHANGED crudvars

\* initialize_firebase() of firebase_utils.py in process w: the file is
\* looked for before firebase_admin._apps is
initialize_firebase(w, env) ==
    /\ app = "run"
    /\ proc[w].started
    /\ LET path == "FIREBASE_CRED_PATH"
           found == proc[w].fbapp # NoApp
           init == env[path] # "missing" /\ ~found
           a == IF init /\ env[path] = "valid" THEN path ELSE proc[w].fbapp
       IN  /\ proc' = [proc EXCEPT ![w].fbapp = a]
           /\ conn' = [w |-> w, env |-> env, checked |-> {path},
                       tried |-> IF init THEN <<path>> ELSE <<>>,
                       db |-> env[path] # "missing" /\ a # NoApp]
    /\ UNCHANGED crudvars

-----------------------------------------------------------------------------
(* The health probes: GET /health of backend/app/main.py and of app/run.py *)

\* `async def` as every handler: the probe is served by the event loop of
\* the process, which is free only when no handler of the process is running
\* (the Firestore client is synchronous, a handler never awaits)
health_check(w) ==
    /\ accept(w)
    /\ respond(w, Response("health", 0, 200,
                  [status |-> IF app = "backend" THEN "ok" ELSE "healthy"]))
    /\ UNCHANGED <<connvars, app, store, clock, issued, deleted>>

-----------------------------------------------------------------------------

Init ==
    /\ app \in {"backend", "run"}
    /\ store = EmptyDict
    /\ clock = 1
    /\ issued = {}
    /\ req = [w \in Workers |-> Idle]
    /\ resp = NoResponse
    /\ deleted = {}
    /\ nreq = 0
    /\ proc = [w \in Workers |-> [started |-> app = "run", fbapp |-> NoApp,
                                  firebase_initialized |-> FALSE]]
    /\ conn = NoConnect

Next ==
    \/ \E w \in Workers, limit \in Limits \cup {DefaultLimit} : get_customers(w, limit)
    \/ \E w \in Workers, id \in Ids : get_customer(w, id)
    \/ \E w \in Workers, body \in BackendBodies : create_customer(w, body)
    \/ \E w \in Workers, id \in Ids, body \in BackendBodies :
          update_customer_get(w, id, body)
    \/ \E w \in Workers : update_customer_now(w)
    \/ \E w \in Workers : update_customer_update(w)
    \/ \E w \in Workers, id \in Ids : delete_customer_get(w, id)
    \/ \E w \in Workers : delete_customer_delete(w)
    \/ \E w \in Workers, body \in RunBodies : create_customer_endpoint_add(w, body)
    \/ \E w \in Workers : create_customer_endpoint_get(w)
    \/ \E w \in Workers, id \in Ids : get_customer_endpoint(w, id)
    \/ \E w \in Workers, limit \in Limits \cup {DefaultLimit} :
          list_customers_endpoint(w, limit)
    \/ \E w \in Workers, id \in Ids, body \in RunBodies :
          update_customer_endpoint_get(w, id, body)
    \/ \E w \in Workers : update_customer_endpoint_update(w)
    \/ \E w \in Workers : update_customer_endpoint_reget(w)
    \/ \E w \in Workers, id \in Ids : delete_customer_endpoint_get(w, id)
    \/ \E w \in Workers : delete_customer_endpoint_delete(w)
    \/ \E w \in Workers : health_check(w)

Spec == Init /\ [][Next]_vars

\* the connects of the processes alone
NextConnect ==
    \/ \E w \in Workers : startup_db_client(w)
    \/ \E w \in Workers, env \in BackendEnvs : get_db(w, env)
    \/ \E w \in Workers, env \in RunEnvs : initialize_firebase(w, env)

SpecConnect == Init /\ [][NextConnect]_vars

-----------------------------------------------------------------------------
(* Steps of the handlers, as the claims below speak of them *)

\* this step is the store write of worker w's Update, and it went through
UpdateWrites(w) ==
    \/ /\ req[w].pc = "update_stamped" /\ req'[w].pc = "idle"
       /\ resp'.op = "update" /\ resp'.status = 200
    \/ /\ req[w].pc = "update_checked"
       /\ req'[w].pc = "update_written"

\* this step takes worker w's Update past its existence check
UpdateProceeds(w) ==
    /\ req[w].pc = "idle"
    /\ req'[w].pc \in {"update_got", "update_checked"}

\* this step takes worker w's Delete past its existence check
DeleteProceeds(w) ==
    /\ req[w].pc = "idle"
    /\ req'[w].pc \in {"delete_got", "delete_checked"}

\* this step is a Create that stores a record under id
CreateAssigns(id) ==
    /\ nreq' = nreq + 1
    /\ \/ resp'.op = "create" /\ resp'.status = 201 /\ resp'.id = id
       \/ \E w \in Workers : /\ req[w].pc = "idle"
                             /\ req'[w].pc = "create_added"
                             /\ req'[w].id = id

Min(a, b) == IF a < b THEN a ELSE b

NameFields == {"first_name", "last_name", "email"}

-----------------------------------------------------------------------------
(* C1: an Update changes only the fields the request supplies with a        *)
(* non-null value: each of first_name, last_name, email that the request   *)
(* leaves out (or gives as null) is stored after the Update's write with   *)
(* the value it had before it.                                              *)
C1_UpdateKeepsOmittedFields ==
    [][\A w \in Workers :
         UpdateWrites(w) =>
           \A f \in NameFields \cap DOMAIN store[req[w].id] :
              dict_get(req[w].body, f, None) = None
                 => store'[req[w].id][f] = store[req[w].id][f]]_vars

(* C2: once a Delete of an id has answered success, the id has no stored    *)
(* record in any later state, and every Get of it is answered 404 (500     *)
(* when the store call of that Get itself failed), never with a record.     *)
C2_DeletedNeverRetrieved ==
    /\ \A id \in deleted : ~exists(store, id)
    /\ (resp.op = "get" /\ resp.id \in deleted)
          => /\ resp.status # 200
             /\ ~resp.raised => resp.status = 404

C2_Witness ==
    /\ app = "backend"
    /\ resp.op = "get" /\ resp.id \in deleted /\ resp.status = 404
    /\ ~resp.raised

(* C3: a Get that directly follows a successful Create, on the id the      *)
(* Create returned, succeeds (unless its store call fails) and returns a   *)
(* record equal to the one the Create returned in every field: id,         *)
(* first_name, last_name, email, created_at, updated_at.                   *)
C3_CreateThenGetRoundTrip ==
    [][(/\ resp.op = "create" /\ resp.status \in {200, 201}
        /\ resp'.op = "get" /\ resp'.id = resp.id /\ ~resp'.raised)
          => /\ resp'.status = 200
             /\ resp'.body = resp.body]_vars

\* the second of two requests is a Get that returned the record first created
C3_Witness ==
    /\ app = "backend" /\ nreq = 2
    /\ resp.op = "get" /\ resp.status = 200
    /\ resp.body.email = "jane@x.com"
    /\ resp.body.created_at = resp.body.updated_at

(* C4: an Update of an id with no stored record goes no further than its   *)
(* existence check: it is answered 404 in that step (422 for a body        *)
(* pydantic rejects, 500 when the lookup itself failed), and the store is  *)
(* unchanged by it.                                                         *)
C4_UpdateOfAbsentIsNotFound ==
    [][/\ \A w \in Workers : UpdateProceeds(w) => exists(store, req'[w].id)
       /\ (nreq' = nreq + 1 /\ resp'.op = "update" /\ ~exists(store, resp'.id))
             => /\ store' = store
                /\ resp'.status # 200
                /\ (~resp'.raised /\ resp'.status # 422) => resp'.status = 404]_vars

\* a 404 for an Update while another record is stored
C4_Witness ==
    /\ resp.op = "update" /\ resp.status = 404 /\ ~resp.raised
    /\ ~exists(store, resp.id)
    /\ DOMAIN store # {}

(* C5: a Delete of an id with no stored record goes no further than its    *)
(* existence check: it is answered 404 in that step (500 when the lookup   *)
(* itself failed) and the store is unchanged by it.                         *)
C5_DeleteOfAbsentIsNotFound ==
    [][/\ \A w \in Workers : DeleteProceeds(w) => exists(store, req'[w].id)
       /\ (nreq' = nreq + 1 /\ resp'.op = "delete" /\ ~exists(store, resp'.id))
             => /\ store' = store
                /\ deleted' = deleted
                /\ IF resp'.raised /\ app = "backend"
                   THEN resp'.status = 500 ELSE resp'.status = 404]_vars

C5_Witness ==
    /\ resp.op = "delete" /\ resp.status = 404 /\ ~resp.raised
    /\ ~exists(store, resp.id)
    /\ DOMAIN store # {}

(* C6: the store write of an Update leaves the record under its id and     *)
(* leaves its created_at as it was, whatever the body carries (an id or a  *)
(* created_at among its keys too); no record appears or disappears, and    *)
(* the record the Update returns has the id of the request.                *)
C6_UpdateKeepsIdAndCreatedAt ==
    [][/\ \A w \in Workers :
            UpdateWrites(w) =>
              /\ DOMAIN store' = DOMAIN store
              /\ dict_get(store'[req[w].id], "created_at", NoTime)
                    = dict_get(store[req[w].id], "created_at", NoTime)
              /\ \A k \in DOMAIN store \ {req[w].id} : store'[k] = store[k]
       /\ (resp'.op = "update" /\ resp'.status = 200)
             => /\ resp'.body.id = resp'.id
                /\ (app = "backend" /\ exists(store', resp'.id))
                      => resp'.body.created_at = store'[resp'.id].created_at]_vars

\* an Update whose body carried a forged id and created_at, after its write
C6_Witness ==
    /\ app = "backend"
    /\ resp.op = "update" /\ resp.status = 200
    /\ resp.body.first_name = "New"
    /\ resp.body.created_at < resp.body.updated_at

(* C7: when the Updates of a customer follow one another (the record is    *)
(* at the write as the Update read it), the write of each stores an        *)
(* updated_at that is a reading of the clock (the time of the Update), not *)
(* earlier than the updated_at stored before, and leaves created_at.       *)
C7_UpdateRefreshesUpdatedAt ==
    [][\A w \in Workers :
         (UpdateWrites(w) /\ store[req[w].id] = req[w].doc) =>
            LET old == store[req[w].id]
                new == store'[req[w].id]
            IN  /\ dict_get(new, "updated_at", NoTime) \in 1..clock'
                /\ dict_get(new, "updated_at", NoTime)
                      >= dict_get(old, "updated_at", NoTime)
                /\ dict_get(new, "created_at", NoTime)
                      = dict_get(old, "created_at", NoTime)]_vars

(* C8: in the backend service every stored record has created_at <=        *)
(* updated_at, both readings of the clock, and the record a Create has     *)
(* just stored has created_at = updated_at.                                 *)
C8_CreatedNotAfterUpdated ==
    app = "backend" =>
      /\ \A id \in DOMAIN store :
            /\ store[id].created_at \in 1..clock
            /\ store[id].updated_at \in 1..clock
            /\ store[id].created_at <= store[id].updated_at
      /\ (resp.op = "create" /\ resp.status = 201)
            => /\ resp.body.created_at = resp.body.updated_at
               /\ store[resp.id].created_at = store[resp.id].updated_at

\* a record updated after its creation, while an Update of it is in flight
C8_Witness ==
    /\ app = "backend"
    /\ \E id \in DOMAIN store : store[id].created_at < store[id].updated_at
    /\ \E w \in Workers : req[w].pc = "update_stamped"

C10_ListReturnsMinLimitStored ==
    (resp.op = "list" /\ resp.status = 200 /\ ~resp.raised)
       => /\ Len(resp.body) = Min(resp.limit, Cardinality(DOMAIN store))
          /\ \A i \in 1..Len(resp.body) :
                /\ exists(store, resp.body[i].id)
                /\ \A k \in DOMAIN store[resp.body[i].id] :
                      resp.body[i][k] = store[resp.body[i].id][k]

-----------------------------------------------------------------------------
(* Connects, as the claims below speak of them *)

\* this step is a connect of process w
Connects(w) == conn'.w = w

\* the credential sources in the order of the specification
SourceOrder ==
    <<"firebase_cred_path", "cloud_run_cred_path", "adc_path", "default">>

\* the place of a source in that order
SourceRank(s) == CHOOSE i \in 1..Len(SourceOrder) : SourceOrder[i] = s

\* initialising with source s gives a working connection
Usable(env, s) ==
    IF s = "default" THEN ApplicationDefault(env) ELSE env[s] = "valid"

(* C11: once process w has a Firebase app, a connect of w leaves the app   *)
(* as it is, looks for no credential file, initialises nothing, and, the   *)
(* app being one of a credential file, returns a client.                   *)
C11_ConnectReusesLiveHandle ==
    [][\A w \in Workers :
         (Connects(w) /\ proc[w].fbapp # NoApp) =>
            /\ proc'[w].fbapp = proc[w].fbapp
            /\ conn'.checked = {}
            /\ conn'.tried = <<>>
            /\ (proc[w].fbapp # "default" => conn'.db)]_vars

(* C12: a connect of get_db without an app initialises with the first      *)
(* source, in the order primary file, mounted file, file of the            *)
(* environment variable, default credentials, that gives a working         *)
(* connection; it tries a source only when no earlier one would work, and  *)
(* none after one that worked.                                              *)
C12_FirstWorkingSourceInOrder ==
    [][\A w \in Workers :
         (Connects(w) /\ app = "backend" /\ proc[w].fbapp = NoApp) =>
            LET env == conn'.env
                tried == conn'.tried
            IN  /\ \A i \in 1..Len(SourceOrder) :
                      (/\ Usable(env, SourceOrder[i])
                       /\ \A j \in 1..(i - 1) : ~Usable(env, SourceOrder[j]))
                         => /\ proc'[w].fbapp = SourceOrder[i]
                            /\ conn'.db
                /\ \A k \in 1..Len(tried) :
                      \A j \in 1..(SourceRank(tried[k]) - 1) :
                         ~Usable(env, SourceOrder[j])
                /\ \A k \in 1..(Len(tried) - 1) : ~Usable(env, tried[k])]_vars

-----------------------------------------------------------------------------
(* C13: a request whose store call found no connection (get_db raised,     *)
(* initialize_firebase gave no client) is answered with status 500 and no  *)
(* record, never with 404 and never with a success.                        *)
C13_NoConnectionIs500 ==
    resp.unavailable => (resp.status = 500 /\ resp.body = EmptyDict)

-----------------------------------------------------------------------------
\* this step is the store delete of a Delete of id, and it went through
DeleteRemoves(id) ==
    \E w \in Workers :
       /\ req[w].pc \in {"delete_got", "delete_checked"}
       /\ req[w].id = id
       /\ req'[w].pc = "idle"
       /\ resp'.op = "delete" /\ resp'.status \in {200, 204}

(* C14: the life of a record: an id gets a stored record only by a Create  *)
(* (and only an id that had none before), an Update's write finds the      *)
(* record and leaves one, a stored record goes away only by a Delete, and  *)
(* a deleted id has no stored record ever after, whatever Update was in    *)
(* flight when it was deleted.                                             *)
C14_RecordLifecycle ==
    [][\A id \in Ids :
         /\ (~exists(store, id) /\ exists(store', id))
               => (CreateAssigns(id) /\ id \notin deleted /\ id \notin issued)
         /\ \A w \in Workers :
               (UpdateWrites(w) /\ req[w].id = id)
                  => (exists(store, id) /\ exists(store', id))
         /\ (exists(store, id) /\ ~exists(store', id)) => DeleteRemoves(id)
         /\ id \in deleted => (id \in deleted' /\ ~exists(store', id))]_vars

\* an Update whose lookup found the record and whose write came after the
\* Delete: update() raised, the record stays deleted
C14_Witness ==
    /\ resp.op = "update" /\ resp.status = 500
    /\ resp.detail = <<"Error updating customer", NoDocument.text>>
    /\ resp.id \in deleted
    /\ ~exists(store, resp.id)

-----------------------------------------------------------------------------
(* C15: no stored payload has an id field, and every record a Get, List,   *)
(* Create or Update returns carries the id it is stored under: the id of   *)
(* the request, with the fields of the stored payload when the record is   *)
(* there and the step read or wrote it.                                    *)
C15_IdIsOnlyTheKey ==
    /\ \A k \in DOMAIN store : "id" \notin DOMAIN store[k]
    /\ (resp.op \in {"get", "create", "update"} /\ resp.status \in {200, 201})
          => /\ "id" \in DOMAIN resp.body
             /\ resp.body.id = resp.id
             /\ (~resp.raised /\ exists(store, resp.id))
                   => store[resp.id] = excluding_id(resp.body)
    /\ (resp.op = "list" /\ resp.status = 200)
          => \A i \in 1..Len(resp.body) :
                /\ "id" \in DOMAIN resp.body[i]
                /\ exists(store, resp.body[i].id)
                /\ store[resp.body[i].id] = excluding_id(resp.body[i])
                /\ \A j \in 1..Len(resp.body) :
                      resp.body[j].id = resp.body[i].id => j = i

\* the record returned by an Update of a stored customer
C15_Witness ==
    /\ resp.op = "update" /\ resp.status = 200 /\ ~resp.raised
    /\ exists(store, resp.id)
    /\ resp.body.id = resp.id
    /\ Cardinality(DOMAIN store) = 2

-----------------------------------------------------------------------------
(* C16: in the backend a Create whose first_name or last_name is missing   *)
(* or empty is turned down as invalid and stores nothing: a Create that is *)
(* turned down is answered 400 (or the 422 of the framework's validation), *)
(* a Create that is answered 201 has both names non-empty, and every       *)
(* stored customer has both names non-empty.                               *)
C16_CreateRequiresNames ==
    app = "backend" =>
       /\ (resp.op = "create" /\ resp.status \notin {201, 500})
             => resp.status \in {400, 422}
       /\ (resp.op = "create" /\ resp.status = 201)
             => (resp.body.first_name # "" /\ resp.body.last_name # "")
       /\ \A k \in DOMAIN store :
             store[k].first_name # "" /\ store[k].last_name # ""

-----------------------------------------------------------------------------
(* C17: a request whose store call raised (on a connection that was there) *)
(* is answered with status 500, while the 404 of a handler stays a 404: a  *)
(* 404 is given only when no call raised and the record is absent, and a   *)
(* Get of an absent record whose call did not raise is answered 404.       *)
C17_StoreExceptionIs500 ==
    /\ (resp.raised /\ ~resp.unavailable) => resp.status = 500
    /\ resp.status = 404 => (resp.unavailable \/ ~exists(store, resp.id))
    /\ (resp.op = "get" /\ ~resp.raised /\ ~exists(store, resp.id))
          => resp.status = 404

-----------------------------------------------------------------------------
\* str(e) of the exceptions the store can raise
ProviderTexts == {e.text : e \in (Faults \ {NoFault}) \cup {NoDocument}}

(* C18: the body of a 500 response is the same whatever the text of the    *)
(* store's exception was: no part of its detail is that text.              *)
C18_ErrorBodyHidesProviderError ==
    resp.status = 500 =>
       \A i \in DOMAIN resp.detail : resp.detail[i] \notin ProviderTexts

-----------------------------------------------------------------------------
(* C19: when Updates of one id interleave, each store write that goes      *)
(* through leaves, in every field it writes, the value of its own request  *)
(* (so the stored value of a field is that of the write that came last),   *)
(* and in every other field the value stored before: the backend writes    *)
(* the three fields of the request and its own updated_at and leaves       *)
(* created_at, run.py writes the non-null fields of the request.           *)
C19_LastWriteWins ==
    [][\A w \in Workers :
         UpdateWrites(w) =>
            LET id == req[w].id
            IN  IF app = "backend"
                THEN /\ \A f \in NameFields : store'[id][f] = req[w].body[f]
                     /\ store'[id].updated_at = req[w].new.updated_at
                     /\ store'[id].created_at = store[id].created_at
                     /\ DOMAIN store'[id] = DOMAIN store[id]
                ELSE /\ \A f \in DOMAIN req[w].body :
                           store'[id][f] = req[w].body[f]
                     /\ \A f \in DOMAIN store[id] \ DOMAIN req[w].body :
                           store'[id][f] = store[id][f]
                     /\ DOMAIN store'[id] =
                           DOMAIN store[id] \cup DOMAIN req[w].body]_vars

\* two Updates of the one record in flight together: the one that read the
\* clock first wrote last, and the record holds what it wrote
C19_Witness ==
    /\ app = "backend"
    /\ Cardinality(issued) = 1
    /\ \A w \in Workers : req[w].pc = "idle"
    /\ resp.op = "update" /\ resp.status = 200
    /\ resp.body.updated_at < clock
    /\ exists(store, resp.id)
    /\ store[resp.id] = excluding_id(resp.body)

-----------------------------------------------------------------------------
(* C20: a request in the middle of its store calls does not keep its       *)
(* process from serving others: whatever the handlers of process w are     *)
(* doing, a health probe that arrives at w can be answered.                *)
C20_ProbeServedDuringStoreCall ==
    \A w \in Workers : nreq < MaxRequests => ENABLED health_check(w)

-----------------------------------------------------------------------------
\* this step is the store write of worker w's Update, gone through or not
UpdateAttempts(w) ==
    /\ req[w].pc \in {"update_stamped", "update_checked"}
    /\ req'[w].pc # req[w].pc

\* this step is the store delete of worker w's Delete, gone through or not
DeleteAttempts(w) ==
    /\ req[w].pc \in {"delete_got", "delete_checked"}
    /\ req'[w].pc # req[w].pc

(* C21: whenever an Update issues its store write or a Delete its store    *)
(* delete, the id has a stored record at that moment.                      *)
C21_MutationFindsRecord ==
    [][\A w \in Workers :
         (UpdateAttempts(w) \/ DeleteAttempts(w))
            => exists(store, req[w].id)]_vars

-----------------------------------------------------------------------------
(* C22: a Delete reports success (204, in run.py 200) only when its store  *)
(* delete removed a record that was there, so of the Deletes of one id     *)
(* that run together at most one reports success.                          *)
C22_DeleteSucceedsOncePerRecord ==
    [][\A w \in Workers :
         (DeleteAttempts(w) /\ resp'.op = "delete"
                            /\ resp'.status \in {200, 204})
            => (exists(store, req[w].id) /\ req[w].id \notin deleted)]_vars

-----------------------------------------------------------------------------
(* C23: in a process whose startup hook initialised the default Firebase   *)
(* app, every get_db finds that app, looks for no credential file and      *)
(* initialises nothing; a get_db that looks for the credential files runs  *)
(* in a process whose hook initialised no app.                             *)
C23_StartupAppSkipsDiscovery ==
    [][\A w \in Workers :
         (Connects(w) /\ app = "backend") =>
            /\ proc[w].firebase_initialized
                  => /\ conn'.checked = {}
                     /\ conn'.tried = <<>>
                     /\ proc'[w].fbapp = "default"
            /\ conn'.checked # {}
                  => /\ ~proc[w].firebase_initialized
                     /\ proc[w].fbapp = NoApp]_vars

\* a get_db after the hook, with a valid primary credential file in place
\* that it does not look for
C23_Witness ==
    /\ conn.w \in Workers
    /\ proc[conn.w].firebase_initialized
    /\ conn.env.firebase_cred_path = "valid"
    /\ conn.checked = {} /\ conn.tried = <<>>
    /\ proc[conn.w].fbapp = "default"

-----------------------------------------------------------------------------
(* C24: a Create that is answered 500 has left no record in the store, and *)
(* a Create that stored a record is answered with success and the id of    *)
(* that record.                                                            *)
C24_CreateAllOrNothing ==
    [][/\ (resp'.op = "create" /\ resp'.status = 500)
             => ~exists(store', resp'.id)
       /\ \A id \in Ids :
             (CreateAssigns(id) /\ app = "backend")
                => (resp'.status = 201 /\ resp'.id = id)
       /\ \A w \in Workers :
             (req[w].pc = "create_added" /\ req'[w].pc = "idle")
                => /\ resp'.op = "create" /\ resp'.status = 200
                   /\ resp'.id = req[w].id]_vars

-----------------------------------------------------------------------------
(* C25: in the backend the stored updated_at of a record never decreases   *)
(* from one state of the store to the next, however the Updates of the     *)
(* record interleave.                                                      *)
C25_UpdatedAtNeverDecreases ==
    [][app = "backend" =>
         \A id \in Ids :
            (exists(store, id) /\ exists(store', id))
               => store'[id].updated_at >= store[id].updated_at]_vars

=============================================================================
